---------------------------- MODULE Spec2Model ----------------------------
(***************************************************************************)
(* A model of solid-web-client: the Container model's extraction pass      *)
(* (appendFromGraph), the web client's request promises (solidRequest,     *)
(* loadParsedGraphs), the Response and Resource models, the two builds of  *)
(* the model classes (src and lib) and the web-util functions.             *)
(*                                                                         *)
(* JavaScript strings are sequences of one-character strings, so that      *)
(* slicing, splitting and the default sort order are computed as the code  *)
(* computes them.                                                          *)
(***************************************************************************)
EXTENDS Integers, Sequences, FiniteSets, TLC

VARIABLES
    container,   \* the SolidContainer under extraction (its fields; not the graph it keeps)
    phase,       \* position in the container's life: "new" or "ready"
    batches,     \* history: per appendFromGraph call, the set of ldp:contains objects of its graph
    typed,       \* history: per appendFromGraph call, the set of nodes its graph types ldp:Container
    response,    \* the SolidResponse under construction (its fields), or NoResponse
    call,        \* the web client method the caller invoked, with its arguments
    requests,    \* per solidRequest call: its XMLHttpRequest and the promise it returned
    chain,       \* loadParsedGraphs: per location, how far its then/catch/then chain has run
    aggregate,   \* loadParsedGraphs: the promise Promise.all returned
    resource,    \* the SolidResource or SolidContainer a caller constructs from the response
    graphCalls,  \* history: per response.parsedGraph() call, what it did and returned
    models,      \* the model classes of one build: modules loaded, prototypes, instances
    util         \* a call of a web-util function: its arguments and, once applied, its result

containerVars == <<container, phase, batches, typed>>

clientVars == <<call, requests, chain, aggregate>>

responseVars == <<response, resource, graphCalls>>

libraryVars == <<models, util>>

vars ==
    <<container, phase, batches, typed, response, call, requests, chain, aggregate,
      resource, graphCalls, models, util>>

-----------------------------------------------------------------------------
(* Bounds *)

\* longest graph (number of statements) passed to one appendFromGraph call
MaxStmts == 2

\* number of appendFromGraph calls on one container, the constructor's included
MaxCalls == 2

\* longest `locations` array passed to loadParsedGraphs
MaxLocations == 2

\* number of parsedGraph() calls on one response
MaxGraphCalls == 2

\* number of model instances constructed in one program
MaxInstances == 3

\* longest base and path given to absoluteUrl, longest url given to hostname
MaxPathLen == 3
MaxUrlLen == 7

\* most link-values in a Link header given to parseLinkHeader
MaxLinks == 3

-----------------------------------------------------------------------------
(* Strings *)

\* UTF-16 code units of the characters the model uses
CodeUnit(ch) ==
    CASE ch = "/" -> 47
      [] ch = "a" -> 97
      [] ch = "b" -> 98
      [] ch = "s" -> 115
      [] ch = "#" -> 35
      [] ch = "." -> 46
      [] ch = "3" -> 51
      [] ch = ":" -> 58
      [] ch = "?" -> 63
      [] ch = "B" -> 66
      [] ch = "C" -> 67
      [] ch = "D" -> 68
      [] ch = "F" -> 70
      [] ch = "R" -> 82
      [] ch = "c" -> 99
      [] ch = "d" -> 100
      [] ch = "e" -> 101
      [] ch = "f" -> 102
      [] ch = "g" -> 103
      [] ch = "h" -> 104
      [] ch = "i" -> 105
      [] ch = "j" -> 106
      [] ch = "k" -> 107
      [] ch = "l" -> 108
      [] ch = "m" -> 109
      [] ch = "n" -> 110
      [] ch = "o" -> 111
      [] ch = "p" -> 112
      [] ch = "q" -> 113
      [] ch = "r" -> 114
      [] ch = "t" -> 116
      [] ch = "u" -> 117
      [] ch = "v" -> 118
      [] ch = "w" -> 119
      [] ch = "x" -> 120
      [] ch = "y" -> 121
      [] ch = "z" -> 122

\* s < t in the order of Array.prototype.sort() without a comparator:
\* by code unit, a proper prefix first
RECURSIVE StrLess(_, _)
StrLess(s, t) ==
    IF t = <<>> THEN FALSE
    ELSE IF s = <<>> THEN TRUE
    ELSE IF Head(s) = Head(t) THEN StrLess(Tail(s), Tail(t))
    ELSE CodeUnit(Head(s)) < CodeUnit(Head(t))

Range(seq) == {seq[i] : i \in DOMAIN seq}

-----------------------------------------------------------------------------
(* The graph engine, as the Container model consumes it *)

LdpContains == "ldp:contains"
RdfType == "rdf:type"
LdpContainer == "ldp:Container"
LdpResource == "ldp:Resource"

\* the container under extraction, and the nodes a graph may mention
SelfUri == <<"/", "s", "/">>
UriA == <<"/", "s", "/", "a">>
UriAB == <<"/", "s", "/", "a", "b">>
UriB == <<"/", "s", "/", "b">>
Uris == {SelfUri, UriA, UriAB, UriB}

St(s, p, o) == [subject |-> s, predicate |-> p, object |-> o]

\* the statements a graph is drawn from
Statements ==
    {St(SelfUri, LdpContains, o) : o \in Uris}
      \cup {St(UriA, LdpContains, UriB)}
      \cup {St(s, RdfType, LdpContainer) : s \in {SelfUri, UriA, UriB}}
      \cup {St(UriA, RdfType, LdpResource)}

\* a graph: its statements in store order, none twice
Graphs ==
    {g \in UNION {[1..n -> Statements] : n \in 0..MaxStmts} :
        \A i, j \in DOMAIN g : i # j => g[i] # g[j]}

\* graph.statementsMatching(null, predicate, undefined): in store order
RECURSIVE StatementsMatchingPredicate(_, _)
StatementsMatchingPredicate(g, p) ==
    IF g = <<>> THEN <<>>
    ELSE IF Head(g).predicate = p
         THEN <<Head(g)>> \o StatementsMatchingPredicate(Tail(g), p)
         ELSE StatementsMatchingPredicate(Tail(g), p)

\* graph.each(null, null, object): the subjects of the statements with that object
RECURSIVE EachSubject(_, _)
EachSubject(g, o) ==
    IF g = <<>> THEN <<>>
    ELSE IF Head(g).object = o
         THEN <<Head(g).subject>> \o EachSubject(Tail(g), o)
         ELSE EachSubject(Tail(g), o)

\* Object.keys(graph.findTypeURIs(node)), as a set
FindTypeURIs(g, node) ==
    {g[i].object : i \in {j \in DOMAIN g : g[j].subject = node /\ g[j].predicate = RdfType}}

-----------------------------------------------------------------------------
(* graph-util: parseLinks *)

\* links[match.object.uri] = true, then Object.keys(links): each object once,
\* in the order of its first match
RECURSIVE ObjectKeys(_, _)
ObjectKeys(matches, links) ==
    IF matches = <<>> THEN links
    ELSE IF Head(matches).object \in Range(links)
         THEN ObjectKeys(Tail(matches), links)
         ELSE ObjectKeys(Tail(matches), Append(links, Head(matches).object))

ParseLinks(g, p) == ObjectKeys(StatementsMatchingPredicate(g, p), <<>>)

-----------------------------------------------------------------------------
(* Array.prototype.sort() *)

RECURSIVE InsertSorted(_, _)
InsertSorted(sorted, x) ==
    IF sorted = <<>> THEN <<x>>
    ELSE IF StrLess(x, Head(sorted)) THEN <<x>> \o sorted
    ELSE <<Head(sorted)>> \o InsertSorted(Tail(sorted), x)

RECURSIVE SortedFrom(_, _)
SortedFrom(seq, acc) ==
    IF seq = <<>> THEN acc ELSE SortedFrom(Tail(seq), InsertSorted(acc, Head(seq)))

\* a sort() that was left out
NoSort(seq) == seq

ArraySort(seq) == SortedFrom(seq, <<>>)

-----------------------------------------------------------------------------
(* The Container model *)

MapPut(m, k, v) == [x \in DOMAIN m \cup {k} |-> IF x = k THEN v ELSE m[x]]

EmptyMap == [x \in {} |-> x]

\* new SolidResource(rdf, uri), without a response: this.parsedGraph = null
NewResource(uri) == [uri |-> uri, types |-> {}, parsedGraph |-> [present |-> FALSE]]

\* a constructor that lists the container in its own contents
NewContainerListed(uri) ==
    [uri |-> uri, types |-> {}, parsedGraph |-> [present |-> FALSE], contentsUris |-> <<uri>>,
     containers |-> EmptyMap, resources |-> EmptyMap]

\* new SolidContainer(rdf, uri), without a response: no parsedGraph, so the
\* constructor does not extract anything
NewContainer(uri) ==
    [uri |-> uri, types |-> {}, parsedGraph |-> [present |-> FALSE], contentsUris |-> <<>>,
     containers |-> EmptyMap, resources |-> EmptyMap]

\* this.contentsUris = batch: an assignment that forgets the earlier calls
ReplaceContents(contentsUris, batch) == batch

\* this.contentsUris.concat(batch)
ConcatContents(contentsUris, batch) == contentsUris \o batch

\* no filter on the link to this directory
KeepsSelf(link, uri) == TRUE

\* containerLink.uri !== this.uri, link !== this.uri
NotSelf(link, uri) == link # uri

\* the containersLinks.forEach loop
RECURSIVE AddContainers(_, _, _, _)
AddContainers(containers, links, g, uri) ==
    IF links = <<>> THEN containers
    ELSE AddContainers(
            IF NotSelf(Head(links), uri)
            THEN MapPut(containers, Head(links),
                        [NewContainer(Head(links)) EXCEPT !.types = FindTypeURIs(g, Head(links))])
            ELSE containers,
            Tail(links), g, uri)

\* the contentsUris.forEach loop
RECURSIVE AddResources(_, _, _, _, _)
AddResources(resources, links, containers, g, uri) ==
    IF links = <<>> THEN resources
    ELSE LET link == Head(links)
             isContainer == link \in DOMAIN containers
             isResource == NotSelf(link, uri) /\ ~isContainer
         IN AddResources(
                IF isResource
                THEN MapPut(resources, link,
                            [NewResource(link) EXCEPT !.types = FindTypeURIs(g, link)])
                ELSE resources,
                Tail(links), containers, g, uri)

\* appendFromGraph(parsedGraph, graphUri) on container c
AppendFromGraph(c, g) ==
    LET contentsUris == ArraySort(ParseLinks(g, LdpContains))
        containers == AddContainers(c.containers, EachSubject(g, LdpContainer), g, c.uri)
    IN [c EXCEPT
          !.types = FindTypeURIs(g, c.uri),
          !.contentsUris = ConcatContents(c.contentsUris, contentsUris),
          !.containers = containers,
          !.resources = AddResources(c.resources, contentsUris, containers, g, c.uri)]

\* what the history records of a graph
ContainsObjects(g) == {st.object : st \in {x \in Range(g) : x.predicate = LdpContains}}
TypedContainer(g) == {st.subject : st \in {x \in Range(g) : x.object = LdpContainer}}

InitContainer ==
    /\ container = NewContainer(SelfUri)
    /\ phase = "new"
    /\ batches = <<>>
    /\ typed = <<>>

\* new SolidContainer(rdf, uri, response): the parsed graph of the response
\* is extracted. The graph itself, which super() keeps in this.parsedGraph,
\* is not tracked for the container under extraction (no later operation
\* reads it); what it held is in the histories
ConstructFromResponse(g) ==
    /\ phase = "new"
    /\ container' = AppendFromGraph(container, g)
    /\ phase' = "ready"
    /\ batches' = Append(batches, ContainsObjects(g))
    /\ typed' = Append(typed, TypedContainer(g))
    /\ UNCHANGED <<responseVars, clientVars, libraryVars>>

\* new SolidContainer(rdf, uri): no parsedGraph, nothing is extracted
ConstructWithoutResponse ==
    /\ phase = "new"
    /\ phase' = "ready"
    /\ UNCHANGED <<container, batches, typed, responseVars, clientVars, libraryVars>>

\* container.appendFromGraph(g, uri) by a caller
CallAppendFromGraph(g) ==
    /\ phase = "ready"
    /\ Len(batches) < MaxCalls
    /\ container' = AppendFromGraph(container, g)
    /\ batches' = Append(batches, ContainsObjects(g))
    /\ typed' = Append(typed, TypedContainer(g))
    /\ UNCHANGED <<phase, responseVars, clientVars, libraryVars>>

NextContainer ==
    \/ \E g \in Graphs : ConstructFromResponse(g)
    \/ ConstructWithoutResponse
    \/ \E g \in Graphs : CallAppendFromGraph(g)

\* no SolidResponse has been constructed
NoResponse == [constructed |-> FALSE]

\* a pending promise
Pending == [state |-> "pending"]

\* no web client method has been called
ClientIdle ==
    /\ call = [op |-> "none"]
    /\ requests = <<>>
    /\ chain = <<>>
    /\ aggregate = Pending

\* no resource has been constructed from the response, parsedGraph() was not called
NoResource ==
    [called |-> FALSE, uriArgument |-> <<>>, object |-> [constructed |-> FALSE, threw |-> FALSE]]

ResponseIdle ==
    /\ response = NoResponse
    /\ resource = NoResource
    /\ graphCalls = <<>>

\* no model module has been required, no web-util function has been called
LibraryIdle ==
    /\ models = [build |-> "none", loaded |-> {}, instances |-> <<>>, calls |-> <<>>]
    /\ util = [op |-> "none"]

Init == InitContainer /\ ResponseIdle /\ ClientIdle /\ LibraryIdle

Next == NextContainer

Spec == Init /\ [][Next]_vars

-----------------------------------------------------------------------------
(* Claims about the Container model *)

ContainerKeys == DOMAIN container.containers
ResourceKeys == DOMAIN container.resources

\* the duplicate-free, lexicographically sorted list of a set of URIs
SortedListOf(S) ==
    CHOOSE s \in [1..Cardinality(S) -> S] :
        /\ Range(s) = S
        /\ \A i, j \in DOMAIN s : i < j => StrLess(s[i], s[j])

RECURSIVE ConcatBatches(_)
ConcatBatches(bs) ==
    IF bs = <<>> THEN <<>> ELSE SortedListOf(Head(bs)) \o ConcatBatches(Tail(bs))

\* C1: after any sequence of appendFromGraph calls no URI is a key of both
\* `containers` and `resources`.
C1_NoKeyInBothMaps == ContainerKeys \cap ResourceKeys = {}

\* C2: after any sequence of appendFromGraph calls every key of `containers`
\* and every key of `resources` is an element of contentsUris.
C2_KeysAreContents == (ContainerKeys \cup ResourceKeys) \subseteq Range(container.contentsUris)

\* C3: contentsUris is the concatenation, in call order, of one batch per
\* appendFromGraph call, each batch the duplicate-free sorted list of the
\* objects of the ldp:contains statements of that call's graph.
C3_ContentsAreSortedBatches == container.contentsUris = ConcatBatches(batches)

\* two calls happened, the first batch needed sorting, and a URI of the first
\* batch came again in the second
C3_Witness ==
    /\ Len(batches) = 2
    /\ Cardinality(batches[1]) >= 2
    /\ batches[1] \cap batches[2] # {}
    /\ Len(container.contentsUris) > Cardinality(Range(container.contentsUris))

\* C4: after exactly one appendFromGraph call contentsUris is the sorted
\* list of keys(containers) \cup keys(resources).
C4_SinglePassContentsAreKeys ==
    Len(batches) = 1 => container.contentsUris = SortedListOf(ContainerKeys \cup ResourceKeys)

IsPrefix(s, t) == Len(s) <= Len(t) /\ SubSeq(t, 1, Len(s)) = s

\* C5: appendFromGraph is cumulative: what contentsUris, `containers` and
\* `resources` held before a call they still hold after it.
C5_AppendIsCumulative ==
    [][/\ IsPrefix(container.contentsUris, container'.contentsUris)
       /\ DOMAIN container.containers \subseteq DOMAIN container'.containers
       /\ DOMAIN container.resources \subseteq DOMAIN container'.resources]_vars

\* a second call whose graph left out contents, a sub-container and a
\* resource of the first, which are all still there
C5_Witness ==
    /\ Len(batches) = 2
    /\ \E u \in batches[1] \ batches[2] : u \in ResourceKeys
    /\ \E u \in typed[1] \ typed[2] : u \in ContainerKeys
    /\ Len(container.contentsUris) > Cardinality(batches[2])

\* C6: the container's own URI is never a key of `containers` nor of `resources`.
C6_SelfIsNoKey == container.uri \notin (ContainerKeys \cup ResourceKeys)

\* a graph that both lists the container under ldp:contains and types it
\* ldp:Container was appended
C6_Witness ==
    /\ \E i \in DOMAIN batches : container.uri \in batches[i] /\ container.uri \in typed[i]
    /\ C6_SelfIsNoKey

\* C28: the sub-containers created by extraction are never populated: every
\* entry of `containers` has no parsedGraph, empty contentsUris, empty
\* `containers` and empty `resources`, whatever the parent graph says of it.
C28_SubContainersAreEmpty ==
    \A k \in ContainerKeys :
        /\ ~container.containers[k].parsedGraph.present
        /\ container.containers[k].contentsUris = <<>>
        /\ container.containers[k].containers = EmptyMap
        /\ container.containers[k].resources = EmptyMap

\* one graph typed /s/a a container and held an ldp:contains triple for
\* /s/b, which is listed in the contents of the parent and not in /s/a
C28_Witness ==
    /\ \E i \in DOMAIN batches : UriA \in typed[i] /\ UriB \in batches[i]
    /\ UriA \in ContainerKeys
    /\ UriB \in Range(container.contentsUris)
    /\ container.containers[UriA].contentsUris = <<>>

-----------------------------------------------------------------------------
(* The Container model: findByType *)

\* a test that takes every typed entry for a match
IsTyped(entry, rdfClass) == entry.types # {}

\* resource.isType(rdfClass): this.types.indexOf(rdfClass) !== -1
IsType(entry, rdfClass) == rdfClass \in entry.types

\* container.findByType(rdfClass) on container c: the matching entries of
\* c.containers, then those of c.resources. `for (key in map)` enumerates the
\* keys in the order they were added; the maps of the model keep no order
\* and are enumerated in code-unit order
FindByType(c, rdfClass) ==
    LET matches(map) ==
            LET keys == SortedListOf(DOMAIN map)
                isMatch(key) == IsType(map[key], rdfClass)
                found == SelectSeq(keys, isMatch)
            IN [i \in DOMAIN found |-> map[found[i]]]
    IN matches(c.containers) \o matches(c.resources)

\* an entry created by `new SolidContainer`, not by `new SolidResource`
IsContainerEntry(entry) == "containers" \in DOMAIN entry

\* C25: findByType(rdfClass) returns exactly the entries of `containers` and
\* `resources` whose types contain rdfClass: each of them once, no other
\* entry, the sub-containers before the resources.
C25_FindByTypeReturnsTheTyped ==
    phase = "ready" =>
        \A rdfClass \in {LdpContainer, LdpResource, LdpContains} :
            LET found == FindByType(container, rdfClass)
                typedContainers == {k \in ContainerKeys :
                                       rdfClass \in container.containers[k].types}
                typedResources == {k \in ResourceKeys :
                                      rdfClass \in container.resources[k].types}
            IN /\ Range(found) = {container.containers[k] : k \in typedContainers}
                                    \cup {container.resources[k] : k \in typedResources}
               /\ Len(found) = Cardinality(typedContainers) + Cardinality(typedResources)
               /\ \A i, j \in DOMAIN found :
                     (i < j /\ IsContainerEntry(found[j])) => IsContainerEntry(found[i])

\* findByType(ldp:Resource) returns a sub-container and then a resource, and
\* findByType(ldp:Container) leaves that resource out
C25_Witness ==
    /\ phase = "ready"
    /\ LET found == FindByType(container, LdpResource)
       IN /\ Len(found) = 2
          /\ IsContainerEntry(found[1])
          /\ ~IsContainerEntry(found[2])
          /\ found[2] \notin Range(FindByType(container, LdpContainer))

-----------------------------------------------------------------------------
(* web-util: absoluteUrl and hostname *)

\* what getResponseHeader returns for a header the response does not carry
\* (no string: its one element is not a character)
Null == <<"null">>

\* the value of a variable that was never assigned
Undefined == <<"undefined">>

Slash == <<"/">>
SlashSlash == <<"/", "/">>
Http == <<"h", "t", "t", "p">>

\* s.slice(from, to) for 0 <= from, with JavaScript's 0-based, end-exclusive indices
Slice(s, from, to) ==
    IF to <= from THEN <<>> ELSE SubSeq(s, from + 1, IF to > Len(s) THEN Len(s) ELSE to)

\* s.startsWith(prefix)
StartsWith(s, prefix) == Len(prefix) <= Len(s) /\ SubSeq(s, 1, Len(prefix)) = prefix

\* s.indexOf(sep), 0-based, -1 when absent
RECURSIVE IndexOfFrom(_, _, _)
IndexOfFrom(s, sep, i) ==
    IF i + Len(sep) > Len(s) THEN -1
    ELSE IF SubSeq(s, i + 1, i + Len(sep)) = sep THEN i
    ELSE IndexOfFrom(s, sep, i + 1)

\* s.split(sep) for a non-empty separator: left to right, matches do not overlap
RECURSIVE Split(_, _)
Split(s, sep) ==
    LET i == IndexOfFrom(s, sep, 0)
    IN IF i = -1 THEN <<s>>
       ELSE <<Slice(s, 0, i)>> \o Split(Slice(s, i + Len(sep), Len(s)), sep)

\* the callback absoluteUrl maps over [baseUrl, pathUrl]
StripSlashes(path) ==
    LET p1 == IF path # <<>> /\ path[1] = "/" THEN Slice(path, 1, Len(path)) ELSE path
    IN IF p1 # <<>> /\ p1[Len(p1)] = "/" THEN Slice(p1, 0, Len(p1) - 1) ELSE p1

\* absoluteUrl(baseUrl, pathUrl)
AbsoluteUrl(baseUrl, pathUrl) ==
    IF pathUrl # Null /\ pathUrl # <<>> /\ Slice(pathUrl, 0, 4) # Http
    THEN StripSlashes(baseUrl) \o Slash \o StripSlashes(pathUrl)
    ELSE pathUrl

\* hostname(url)
Hostname(url) ==
    LET fragments == Split(url, SlashSlash)
        hasProtocol == Len(fragments) = 2
        protocol == fragments[1]
        hostname == IF hasProtocol THEN fragments[2] ELSE url
        pathSegments == Split(hostname, Slash)
        \* a protocol that is the empty string is falsy
        result == IF hasProtocol /\ protocol # <<>>
                  THEN protocol \o SlashSlash \o pathSegments[1]
                  ELSE pathSegments[1]
    IN IF StartsWith(url, SlashSlash) THEN SlashSlash \o result ELSE result

-----------------------------------------------------------------------------
(* web-util: parseLinkHeader *)

\* A Link header as the regular expressions of parseLinkHeader read it:
\* `matches` are the link-values linkexp finds, in order; each has the href
\* between '<' and '>' and the parameters paramexp finds after the '>', each a
\* name and a value (with its quotes, if it has any)
NoLinkHeader == [present |-> FALSE]
EmptyLinkHeader == [present |-> TRUE, empty |-> TRUE, matches |-> <<>>]
LinkHeader(matches) == [present |-> TRUE, empty |-> FALSE, matches |-> matches]

LinkValue(href, params) == [href |-> href, params |-> params]
Param(name, value) == [name |-> name, value |-> value]

\* paramsplit[1].replace(/["']/g, '')
RECURSIVE StripQuotes(_)
StripQuotes(value) ==
    IF value = <<>> THEN <<>>
    ELSE IF Head(value) \in {"\"", "'"} THEN StripQuotes(Tail(value))
    ELSE <<Head(value)>> \o StripQuotes(Tail(value))

\* a push that is not followed by a sort
PushOnly(list, href) == Append(list, href)

\* rels[rel].push(href), then rels[rel].sort() once the list has more than one member
PushAndSort(list, href) ==
    LET pushed == Append(list, href)
    IN IF Len(pushed) > 1 THEN ArraySort(pushed) ELSE pushed

\* the loop over the parameters s of one link-value: the value of every
\* parameter, whatever its name, is taken as a relation
RECURSIVE PushParams(_, _, _)
PushParams(rels, href, s) ==
    IF s = <<>> THEN rels
    ELSE LET rel == StripQuotes(Head(s).value)
             list == IF rel \in DOMAIN rels THEN rels[rel] ELSE <<>>
         IN PushParams(MapPut(rels, rel, PushAndSort(list, href)), href, Tail(s))

\* the loop over the matches: ps.match(paramexp) is null for a link-value
\* without parameters, and s.length then throws
RECURSIVE PushMatches(_, _)
PushMatches(rels, matches) ==
    IF matches = <<>> THEN [threw |-> FALSE, rels |-> rels]
    ELSE IF Head(matches).params = <<>> THEN [threw |-> TRUE]
    ELSE PushMatches(PushParams(rels, Head(matches).href, Head(matches).params), Tail(matches))

\* parseLinkHeader(link): {} for an absent or empty header; link.match(linkexp)
\* is null for a header with no link-value, and matches.length then throws
ParseLinkHeader(link) ==
    IF ~link.present \/ link.empty THEN [threw |-> FALSE, rels |-> EmptyMap]
    ELSE IF link.matches = <<>> THEN [threw |-> TRUE]
    ELSE PushMatches(EmptyMap, link.matches)

-----------------------------------------------------------------------------
(* web-util: parseAllowedMethods *)

\* methodName.trim().toLowerCase() of a method name in letters and spaces
TrimToLowerCase(methodName) ==
    LET letters == {i \in DOMAIN methodName : methodName[i] # " "}
        first == CHOOSE i \in letters : \A j \in letters : i <= j
        last == CHOOSE i \in letters : \A j \in letters : j <= i
        lower(ch) == CASE ch = "A" -> "a" [] ch = "C" -> "c" [] ch = "E" -> "e"
                       [] ch = "G" -> "g" [] ch = "H" -> "h" [] ch = "P" -> "p"
                       [] ch = "T" -> "t" [] ch = "U" -> "u" [] OTHER -> ch
    IN IF letters = {} THEN <<>>
       ELSE [i \in 1..(last - first + 1) |-> lower(methodName[first + i - 1])]

\* parseAllowedMethods(allowMethodsHeader, acceptPatchHeader): the keys of the
\* returned hashmap (every value is true). A header that is null or '' is
\* falsy; an element of the list that is '' is falsy and skipped
ParseAllowedMethods(allowMethodsHeader, acceptPatchHeader) ==
    (IF allowMethodsHeader \in {Null, <<>>} THEN {}
     ELSE {TrimToLowerCase(methodName) :
              methodName \in {verb \in Range(Split(allowMethodsHeader, <<",">>)) : verb # <<>>}})
      \cup (IF /\ acceptPatchHeader \notin {Null, <<>>}
               /\ IndexOfFrom(acceptPatchHeader,
                              <<"a", "p", "p", "l", "i", "c", "a", "t", "i", "o", "n", "/", "s", "p", "a", "r", "q", "l", "-", "u", "p", "d", "a", "t", "e">>, 0) >= 0
            THEN {<<"p", "a", "t", "c", "h">>} ELSE {})

-----------------------------------------------------------------------------
(* The transport result (XMLHttpRequest) as the Response model reads it *)

Semicolon == <<";">>
TextTurtle == <<"t", "e", "x", "t", "/", "t", "u", "r", "t", "l", "e">>
TextTurtleCharset == <<"t", "e", "x", "t", "/", "t", "u", "r", "t", "l", "e", ";", "c">>
ImageGif == <<"i", "m", "a", "g", "e", "/", "g", "i", "f">>

\* xhr.responseURL
UrlF == <<"h", "t", "t", "p", ":", "/", "/", "f">>
UrlFSlash == <<"h", "t", "t", "p", ":", "/", "/", "f", "/">>
UrlFB == <<"h", "t", "t", "p", ":", "/", "/", "f", "/", "b">>
UrlFBSlash == <<"h", "t", "t", "p", ":", "/", "/", "f", "/", "b", "/">>
UrlFASlashSlashB == <<"h", "t", "t", "p", ":", "/", "/", "f", "/", "a", "/", "/", "b">>
UrlESlash == <<"h", "t", "t", "p", ":", "/", "/", "e", "/">>
ResponseUrls == {UrlF, UrlFSlash, UrlFB, UrlFBSlash, UrlFASlashSlashB, UrlESlash}

\* xhr.getResponseHeader('Location')
LocBSlash == <<"/", "b", "/">>
LocRelative == <<"d">>
Locations ==
    {Null, <<"/", "b">>, LocBSlash, LocRelative, <<"/", "a", "/", "b">>,
     <<"h", "t", "t", "p", ":", "/", "/", "e", "/", "d">>,
     <<"h", "t", "t", "p", ":", "/", "/", "e", "/", "d", "/">>}

\* xhr.getResponseHeader('Content-Type')
ContentTypes == {Null, <<>>, TextTurtle, TextTurtleCharset, ImageGif}

\* xhr.response: a body the graph engine can parse as RDF, and one it cannot
BodyTurtle == "turtle source"
BodyGarbage == "not rdf"
Bodies == {BodyTurtle, BodyGarbage}

\* the HTTP verbs the client passes to createResponse, one a caller wrote in
\* mixed case, and the verb of a caller that passed none
Methods == {"GET", "POST", "PUT", "PATCH", "DELETE", "HEAD", "OPTIONS", "Get", ""}

\* method.toLowerCase(), or '' for no method
ToLowerCase(method) ==
    CASE method \in {"GET", "Get", "get"} -> "get"
      [] method = "" -> ""
      [] method = "POST" -> "post"
      [] method = "PUT" -> "put"
      [] method = "PATCH" -> "patch"
      [] method = "DELETE" -> "delete"
      [] method = "HEAD" -> "head"
      [] method = "OPTIONS" -> "options"

-----------------------------------------------------------------------------
(* graph-util: parseGraph *)

\* the content types the injected RDF library has a parser for
ParsableTypes == {TextTurtle}

\* rdf.parse throws for a content type it has no parser for and for a body
\* that is not of that syntax; otherwise parseGraph returns the graph
ParseGraph(baseUrl, rdfSource, contentType) ==
    IF contentType \in ParsableTypes /\ rdfSource = BodyTurtle
    THEN [threw |-> FALSE,
          graph |-> [present |-> TRUE, base |-> baseUrl, source |-> rdfSource]]
    ELSE [threw |-> TRUE]

\* null where a graph is expected
NullGraph == [present |-> FALSE]

-----------------------------------------------------------------------------
(* The Response model *)

\* the LDP types a server names in rel="type" links
TypeContainer ==
    <<"h", "t", "t", "p", ":", "/", "/", "w", "w", "w", ".", "w", "3", ".", "o", "r",
      "g", "/", "n", "s", "/", "l", "d", "p", "#", "C", "o", "n", "t", "a", "i", "n",
      "e", "r">>
TypeBasicContainer ==
    <<"h", "t", "t", "p", ":", "/", "/", "w", "w", "w", ".", "w", "3", ".", "o", "r",
      "g", "/", "n", "s", "/", "l", "d", "p", "#", "B", "a", "s", "i", "c", "C", "o",
      "n", "t", "a", "i", "n", "e", "r">>
TypeResource ==
    <<"h", "t", "t", "p", ":", "/", "/", "w", "w", "w", ".", "w", "3", ".", "o", "r",
      "g", "/", "n", "s", "/", "l", "d", "p", "#", "R", "e", "s", "o", "u", "r", "c",
      "e">>
TypeRDFResource ==
    <<"h", "t", "t", "p", ":", "/", "/", "w", "w", "w", ".", "w", "3", ".", "o", "r",
      "g", "/", "n", "s", "/", "l", "d", "p", "#", "R", "D", "F", "R", "e", "s", "o",
      "u", "r", "c", "e">>

\* relation names, and the same with the quotes a header writes around them
RelAcl == <<"a", "c", "l">>
RelMeta == <<"m", "e", "t", "a">>
RelDescribedBy == <<"d", "e", "s", "c", "r", "i", "b", "e", "d", "B", "y">>
RelType == <<"t", "y", "p", "e">>
Quoted(value) == <<"\"">> \o value \o <<"\"">>

\* xhr.getResponseHeader('Link'): no header, an empty one, and headers with
\* quoted and unquoted relation names
LinkHeaders ==
    {NoLinkHeader, EmptyLinkHeader,
     \* a resource b: <b.acl>; rel="acl", <b.meta>; rel="describedBy", and two types
     LinkHeader(<<LinkValue(<<"b", ".", "a", "c", "l">>, <<Param("rel", Quoted(RelAcl))>>),
                  LinkValue(<<"b", ".", "m", "e", "t", "a">>,
                            <<Param("rel", Quoted(RelDescribedBy))>>),
                  LinkValue(TypeResource, <<Param("rel", Quoted(RelType))>>),
                  LinkValue(TypeRDFResource, <<Param("rel", Quoted(RelType))>>)>>),
     \* a container: <.acl>; rel="acl", <.meta>; rel="meta", and both container types
     LinkHeader(<<LinkValue(<<".", "a", "c", "l">>, <<Param("rel", Quoted(RelAcl))>>),
                  LinkValue(<<".", "m", "e", "t", "a">>, <<Param("rel", Quoted(RelMeta))>>),
                  LinkValue(TypeContainer, <<Param("rel", Quoted(RelType))>>),
                  LinkValue(TypeBasicContainer, <<Param("rel", Quoted(RelType))>>)>>),
     \* typed ldp:BasicContainer and not ldp:Container
     LinkHeader(<<LinkValue(TypeBasicContainer, <<Param("rel", RelType)>>),
                  LinkValue(TypeResource, <<Param("rel", RelType)>>)>>),
     \* one link with two parameters: <...#Container>; rel="type"; title="type"
     LinkHeader(<<LinkValue(TypeContainer,
                            <<Param("rel", Quoted(RelType)), Param("title", Quoted(RelType))>>)>>),
     \* acl and describedBy given as absolute URLs
     LinkHeader(<<LinkValue(<<"h", "t", "t", "p", ":", "/", "/", "e", "/", "d">>,
                            <<Param("rel", RelAcl)>>),
                  LinkValue(<<"h", "t", "t", "p", ":", "/", "/", "e", "/", "d">>,
                            <<Param("rel", RelDescribedBy)>>)>>),
     \* a relative acl name that begins with 'http': <http.acl>; rel="acl"
     LinkHeader(<<LinkValue(<<"h", "t", "t", "p", ".", "a", "c", "l">>,
                            <<Param("rel", Quoted(RelAcl))>>)>>),
     \* an acl name with a leading slash: </b.acl>; rel="acl"
     LinkHeader(<<LinkValue(<<"/", "b", ".", "a", "c", "l">>,
                            <<Param("rel", Quoted(RelAcl))>>)>>),
     \* the acl of the resource is the resource itself: <>; rel="acl"
     LinkHeader(<<LinkValue(<<>>, <<Param("rel", Quoted(RelAcl))>>)>>),
     \* 'acl' as the value of a parameter that is not rel: <b.acl>; title="acl"
     LinkHeader(<<LinkValue(<<"b", ".", "a", "c", "l">>, <<Param("title", Quoted(RelAcl))>>)>>),
     \* a link-value without parameters: <b.acl>
     LinkHeader(<<LinkValue(<<"b", ".", "a", "c", "l">>, <<>>)>>)}

\* what JavaScript takes for false where a string is expected: undefined, null, ''
Falsy(value) == value \in {Undefined, Null, <<>>}

\* this.acl, this.meta: the link list of the relation, then its first member
RECURSIVE FirstLink(_, _)
FirstLink(linkHeaders, rels) ==
    IF rels = <<>> THEN Undefined
    ELSE IF Head(rels) \in DOMAIN linkHeaders THEN linkHeaders[Head(rels)][1]
    ELSE FirstLink(linkHeaders, Tail(rels))

\* Array.from(new Set(list)): each member once, in the order of its first occurrence
RECURSIVE Unique(_, _)
Unique(list, seen) ==
    IF list = <<>> THEN seen
    ELSE IF Head(list) \in Range(seen) THEN Unique(Tail(list), seen)
    ELSE Unique(Tail(list), Append(seen, Head(list)))

\* response.typeLinkHeaders()
TypeLinkHeaders(linkHeaders) ==
    IF RelType \notin DOMAIN linkHeaders THEN <<>> ELSE Unique(linkHeaders[RelType], <<>>)

\* a test for ldp:Container alone
IsContainerOnly(types) == TypeContainer \in Range(types)

\* response.isContainer()
IsContainer(types) == TypeContainer \in Range(types) \/ TypeBasicContainer \in Range(types)

\* response.contentType() with an xhr: throws (TypeError) when the header is
\* absent, else the header up to its first ';'
ContentType(x) ==
    IF x.contentType = Null THEN [threw |-> TRUE]
    ELSE [threw |-> FALSE, value |-> Split(x.contentType, Semicolon)[1]]

\* response.contentType(): null without an xhr
ResponseContentType(r) ==
    IF r.hasXhr THEN ContentType(r.xhr) ELSE [threw |-> FALSE, value |-> Null]

\* response.raw()
Raw(r) == IF r.hasXhr THEN r.xhr.body ELSE "null"

\* response.parseAllowedMethods(xhrResponse, method): this.allowedMethods
AllowedMethods(x, method) ==
    IF method = "get" THEN {} ELSE ParseAllowedMethods(x.allow, x.acceptPatch)

\* an exists() that takes only the 2xx statuses for success
ExistsBelow300(r) ==
    IF ~r.hasXhr THEN "null"
    ELSE IF r.xhr.status >= 200 /\ r.xhr.status < 300 THEN "true" ELSE "false"

\* response.exists(): `this.xhr && this.xhr.status >= 200 && this.xhr.status < 400`
\* is the value of this.xhr (null) without an xhr, else the boolean
Exists(r) ==
    IF ~r.hasXhr THEN "null"
    ELSE IF r.xhr.status >= 200 /\ r.xhr.status < 400 THEN "true" ELSE "false"

\* a content type taken when the response reports none
DefaultedContentType(contentType) ==
    IF contentType.threw \/ Falsy(contentType.value)
    THEN [threw |-> FALSE, value |-> TextTurtle] ELSE contentType

\* let contentType = response.contentType(); if (!contentType) { throw ... }
RequiredContentType(contentType) ==
    IF contentType.threw \/ Falsy(contentType.value) THEN [threw |-> TRUE] ELSE contentType

\* SolidResource.initFromResponse(response) of a resource whose uri is `uri`:
\* throws without a content type and when parsing throws
InitFromResponse(r, uri) ==
    LET contentType == RequiredContentType(ResponseContentType(r))
    IN IF contentType.threw THEN [threw |-> TRUE]
       ELSE ParseGraph(uri, Raw(r), contentType.value)

\* a constructor that keeps the uri it was given
KeepGivenUri(uri, url) == uri

\* if (response.url !== uri) { this.uri = response.url }
OverrideUri(uri, url) == IF url # uri THEN url ELSE uri

\* SolidResource.initName(): the last fragment of the uri, or the one before
\* it when the uri ends in '/'
InitName(uri) ==
    IF Falsy(uri) THEN Null
    ELSE LET fragments == Split(uri, Slash)
             n == Len(fragments)
         IN IF fragments[n] = <<>> /\ n > 1 THEN fragments[n - 1] ELSE fragments[n]

\* new SolidResource(rdf, uri, response) and, for class "SolidContainer", the
\* super() call of new SolidContainer(rdf, uri, response); what the
\* subclass then extracts from parsedGraph is ConstructFromResponse above
NewFromResponse(class, uri, r) ==
    LET thisUri == OverrideUri(uri, r.url)
        init == InitFromResponse(r, thisUri)
    IN IF init.threw THEN [constructed |-> FALSE, threw |-> TRUE]
       ELSE [constructed |-> TRUE, threw |-> FALSE, class |-> class, uri |-> thisUri,
             parsedGraph |-> init.graph, name |-> InitName(thisUri)]

\* response.resource of a response that is not the response to a GET
NullResource == [constructed |-> FALSE, threw |-> FALSE]

\* this.url, as the constructor computes it from the Location header and xhr.responseURL
ResponseUrl(x) ==
    IF x.location # Null /\ x.location # <<>>
    THEN AbsoluteUrl(Hostname(x.responseURL), x.location)
    ELSE x.responseURL

\* new SolidResponse(): no xhrResponse; this.xhr and this.method are null
\* (no HTTP verb is spelled "null")
EmptyResponse ==
    [constructed |-> TRUE, threw |-> FALSE, hasXhr |-> FALSE, xhr |-> [present |-> FALSE],
     verb |-> "", method |-> "null", linkHeaders |-> EmptyMap,
     acl |-> Undefined, meta |-> Undefined,
     types |-> <<>>, url |-> Undefined, graph |-> NullGraph,
     hasResource |-> FALSE, resource |-> NullResource]

\* new SolidResponse(rdf, xhrResponse, method) for a present xhrResponse: what
\* parseLinkHeader throws the constructor throws; for a GET the resource is
\* built in the constructor, and what that throws the constructor throws.
\* `verb` keeps the method argument as the caller wrote it (history)
SolidResponse(x, method) ==
    LET m == ToLowerCase(method)
        parsedLinks == ParseLinkHeader(x.link)
        types == IF parsedLinks.threw THEN <<>> ELSE TypeLinkHeaders(parsedLinks.rels)
        this == [hasXhr |-> TRUE, xhr |-> x, url |-> ResponseUrl(x)]
        built == IF m = "get"
                 THEN NewFromResponse(IF IsContainer(types) THEN "SolidContainer"
                                      ELSE "SolidResource", this.url, this)
                 ELSE NullResource
    IN IF parsedLinks.threw \/ built.threw
       THEN [constructed |-> FALSE, threw |-> TRUE]
       ELSE [constructed |-> TRUE, threw |-> FALSE, hasXhr |-> TRUE, xhr |-> x,
             verb |-> method, method |-> m, linkHeaders |-> parsedLinks.rels,
             acl |-> FirstLink(parsedLinks.rels, <<RelAcl>>),
             allowedMethods |-> AllowedMethods(x, m),
             meta |-> FirstLink(parsedLinks.rels, <<RelMeta, RelDescribedBy>>),
             types |-> types, url |-> this.url, graph |-> NullGraph,
             hasResource |-> (m = "get"), resource |-> built]

\* response.parsedGraph(): the cached graph, or the body parsed now. The
\* arguments of parseGraph are evaluated first (contentType() may throw);
\* a response without an xhr has no rdf library to call
ParsedGraph(r) ==
    IF r.graph.present THEN [threw |-> FALSE, invoked |-> FALSE, graph |-> r.graph]
    ELSE LET contentType == ResponseContentType(r)
         IN IF contentType.threw \/ ~r.hasXhr THEN [threw |-> TRUE, invoked |-> FALSE]
            ELSE LET parsedGraph == ParseGraph(r.url, Raw(r), contentType.value)
                 IN IF parsedGraph.threw
                    THEN [threw |-> TRUE, invoked |-> TRUE,
                          base |-> r.url, source |-> Raw(r), contentType |-> contentType.value]
                    ELSE [threw |-> FALSE, invoked |-> TRUE, graph |-> parsedGraph.graph,
                          base |-> r.url, source |-> Raw(r), contentType |-> contentType.value]

\* a parsedGraph() that does not keep the graph
ForgetGraph(r, parsedGraph) == r

\* this.graph = graphUtil.parseGraph(...)
CacheGraph(r, parsedGraph) ==
    IF parsedGraph.threw THEN r ELSE [r EXCEPT !.graph = parsedGraph.graph]

\* s.lastIndexOf(ch), 0-based, -1 when absent
LastIndexOf(s, ch) ==
    IF \E i \in DOMAIN s : s[i] = ch
    THEN (CHOOSE i \in DOMAIN s : s[i] = ch /\ \A j \in DOMAIN s : s[j] = ch => j <= i) - 1
    ELSE -1

\* response.resolveMetaOrAclUrl(propertyName)
ResolveMetaOrAclUrl(r, propertyName) ==
    IF Falsy(r.url) THEN Null
    ELSE LET metaOrAclUrl == r[propertyName]
             parentUrl == Slice(r.url, 0, LastIndexOf(r.url, "/") + 1)
         IN AbsoluteUrl(parentUrl, metaOrAclUrl)

\* response.aclAbsoluteUrl()
AclAbsoluteUrl(r) == IF Falsy(r.acl) THEN Null ELSE ResolveMetaOrAclUrl(r, "acl")

\* response.metaAbsoluteUrl()
MetaAbsoluteUrl(r) == IF Falsy(r.meta) THEN Null ELSE ResolveMetaOrAclUrl(r, "meta")

\* the exchanges a Response is constructed from: every url with every
\* Location, every Link header with every content type and body, every
\* status (0 is the status of an exchange that failed on the network), and
\* every Allow header with every Accept-Patch header
XhrResponses ==
    [status : {200}, responseURL : ResponseUrls, location : Locations,
     link : {NoLinkHeader}, contentType : {TextTurtle}, body : {BodyTurtle},
     allow : {Null}, acceptPatch : {Null}]
      \cup [status : {200}, responseURL : {UrlF, UrlFSlash, UrlFB}, location : {Null},
            link : LinkHeaders, contentType : ContentTypes, body : Bodies,
            allow : {Null}, acceptPatch : {Null}]
      \cup [status : {0, 199, 200, 204, 299, 300, 304, 399, 400, 404, 500},
            responseURL : {UrlFB}, location : {Null},
            link : {NoLinkHeader}, contentType : {TextTurtle}, body : {BodyTurtle},
            allow : {Null}, acceptPatch : {Null}]
      \cup [status : {200}, responseURL : {UrlFB}, location : {Null},
            link : {NoLinkHeader}, contentType : {TextTurtle}, body : {BodyTurtle},
            \* Allow: absent, empty, one verb, verbs after a comma and a space
            \* and in mixed case, an empty and a blank list element
            allow : {Null, <<>>, <<"G", "E", "T">>, <<"P", "A", "T", "C", "H">>,
                     <<"G", "E", "T", ",", "P", "U", "T">>,
                     <<"G", "E", "T", ",", " ", "P", "u", "t">>,
                     <<"G", "E", "T", ",", ",", "H", "E", "A", "D">>,
                     <<"G", "E", "T", ",", " ", ",", "H", "E", "A", "D">>},
            \* Accept-Patch: absent, application/json,
            \* application/sparql-update, and both
            acceptPatch : {Null,
                           <<"a", "p", "p", "l", "i", "c", "a", "t", "i", "o", "n", "/", "j", "s", "o", "n">>,
                           <<"a", "p", "p", "l", "i", "c", "a", "t", "i", "o", "n", "/", "s", "p", "a", "r", "q", "l", "-", "u", "p", "d", "a", "t", "e">>,
                           <<"a", "p", "p", "l", "i", "c", "a", "t", "i", "o", "n", "/", "j", "s", "o", "n", ",", " ", "a", "p", "p", "l", "i", "c", "a", "t", "i", "o", "n", "/", "s", "p", "a", "r", "q", "l", "-", "u", "p", "d", "a", "t", "e">>}]

\* the classes of src/models
ModelClasses == {"SolidResource", "SolidContainer"}

\* the uri argument a caller passes with a response: a relative path, a
\* relative name, the url of the response
UriArguments ==
    {SelfUri, LocRelative} \cup (IF response.constructed THEN {response.url} ELSE {})

\* before the constructor runs; no container and no client call are involved
InitResponse == ResponseIdle /\ InitContainer /\ ClientIdle /\ LibraryIdle

\* new SolidResponse(rdf, xhrResponse, method)
ConstructResponse(x, method) ==
    /\ response = NoResponse
    /\ response' = SolidResponse(x, method)
    /\ UNCHANGED <<resource, graphCalls, containerVars, clientVars, libraryVars>>

\* new SolidResponse()
ConstructEmptyResponse ==
    /\ response = NoResponse
    /\ response' = EmptyResponse
    /\ UNCHANGED <<resource, graphCalls, containerVars, clientVars, libraryVars>>

\* new SolidResource(rdf, uri, response) or new SolidContainer(rdf, uri, response) by a caller
ConstructResource(class, uri) ==
    /\ response.constructed
    /\ ~resource.called
    /\ resource' = [called |-> TRUE, uriArgument |-> uri,
                    object |-> NewFromResponse(class, uri, response)]
    /\ UNCHANGED <<response, graphCalls, containerVars, clientVars, libraryVars>>

\* response.parsedGraph() by a caller
CallParsedGraph ==
    /\ response.constructed
    /\ Len(graphCalls) < MaxGraphCalls
    /\ LET parsedGraph == ParsedGraph(response)
       IN /\ response' = CacheGraph(response, parsedGraph)
          /\ graphCalls' = Append(graphCalls, parsedGraph)
    /\ UNCHANGED <<resource, containerVars, clientVars, libraryVars>>

NextResponse ==
    \/ \E x \in XhrResponses, method \in Methods : ConstructResponse(x, method)
    \/ ConstructEmptyResponse
    \/ \E class \in ModelClasses, uri \in UriArguments : ConstructResource(class, uri)
    \/ CallParsedGraph

SpecResponse == InitResponse /\ [][NextResponse]_vars

-----------------------------------------------------------------------------
(* Claims about the Response model *)

\* the scheme and host of a url: what precedes the first '/' after the first '//'
Origin(url) ==
    LET i == IndexOfFrom(url, SlashSlash, 0)
        rest == Slice(url, i + 2, Len(url))
        j == IndexOfFrom(rest, Slash, 0)
    IN IF i = -1 THEN url
       ELSE IF j = -1 THEN url
       ELSE Slice(url, 0, i + 2 + j)

\* a Location resolved against an origin, the path of the base not contributing
ResolvedAgainstOrigin(origin, location) ==
    IF StartsWith(location, Http \o <<":">> \o SlashSlash) THEN location
    ELSE IF StartsWith(location, Slash) THEN origin \o location
    ELSE origin \o Slash \o location

\* C10: Response.url is the Location header resolved against the scheme and
\* host of responseURL when a Location header is present (an absolute
\* Location verbatim, the path of responseURL never contributing), and
\* responseURL itself when there is none.
C10_UrlIsLocationResolvedAgainstOrigin ==
    (response.constructed /\ response.hasXhr) =>
        response.url =
            IF response.xhr.location # Null
            THEN ResolvedAgainstOrigin(Origin(response.xhr.responseURL), response.xhr.location)
            ELSE response.xhr.responseURL

\* the method argument spells GET, in whatever case
IsGetVerb(verb) == verb \in {"GET", "Get", "get"}

\* C11: a Resource or Container constructed with a response has uri equal to
\* response.url, whatever uri argument the caller supplied, and its graph is
\* parsed with that uri as base.
C11_UriIsResponseUrl ==
    /\ resource.object.constructed =>
          /\ resource.object.uri = response.url
          /\ resource.object.parsedGraph.base = response.url
    /\ (response.constructed /\ response.resource.constructed) =>
          /\ response.resource.uri = response.url
          /\ response.resource.parsedGraph.base = response.url

\* a Container was constructed from a response with a relative path as uri argument
C11_Witness ==
    /\ resource.object.constructed
    /\ resource.object.class = "SolidContainer"
    /\ resource.uriArgument = SelfUri
    /\ resource.object.uri = response.url
    /\ response.url # SelfUri

\* C13: a Response has a resource iff its request method is GET (in whatever
\* case), and that resource is a Container iff the types the response took
\* from its Link header include ldp:Container or ldp:BasicContainer,
\* otherwise a plain Resource.
C13_ResourceIffGet ==
    response.constructed =>
        /\ response.resource.constructed <=> (response.hasXhr /\ IsGetVerb(response.verb))
        /\ response.resource.constructed =>
              /\ response.resource.class \in {"SolidContainer", "SolidResource"}
              /\ response.resource.class = "SolidContainer" <=>
                    \/ TypeContainer \in Range(response.types)
                    \/ TypeBasicContainer \in Range(response.types)

\* a GET written in mixed case got a Container for a response typed
\* ldp:BasicContainer and not ldp:Container
C13_Witness ==
    /\ response.constructed
    /\ response.hasXhr
    /\ response.verb = "Get"
    /\ response.resource.constructed
    /\ response.resource.class = "SolidContainer"
    /\ TypeContainer \notin Range(response.types)
    /\ TypeBasicContainer \in Range(response.types)

\* the response reports no content type: it has no xhr, no Content-Type
\* header, or an empty one
ReportsNoContentType(r) == ~r.hasXhr \/ r.xhr.contentType \in {Null, <<>>}

\* C14: constructing a Resource or Container from a response that reports no
\* content type fails: the constructor throws, nothing is parsed and no
\* object is returned.
C14_NoContentTypeThrows ==
    (resource.called /\ ReportsNoContentType(response)) =>
        /\ resource.object.threw
        /\ ~resource.object.constructed

\* both a response without the header and a response without an xhr were
\* given to a constructor, which threw
C14_Witness ==
    /\ resource.called
    /\ resource.object.threw
    /\ response.hasXhr
    /\ response.xhr.contentType = Null
    /\ response.xhr.body = BodyTurtle

\* a parsedGraph() call before call k returned a graph
CachedBefore(k) == \E j \in 1..(k - 1) : ~graphCalls[j].threw

\* the graph the first successful parsedGraph() call returned
FirstGraph == graphCalls[CHOOSE j \in DOMAIN graphCalls :
                            ~graphCalls[j].threw /\ \A i \in 1..(j - 1) : graphCalls[i].threw].graph

\* the graph engine was invoked with base URI = url, body = raw(), content type = contentType()
InvokedOnResponse(c) ==
    /\ c.invoked
    /\ c.base = response.url
    /\ c.source = Raw(response)
    /\ c.contentType = ResponseContentType(response).value

\* C15 as stated: the graph engine is invoked on the first parsedGraph() call
\* only (with base URI = url, body = raw(), content type = contentType()),
\* and every later call returns that same cached graph without parsing again.
C15_ParsedGraphParsesOnce ==
    \A k \in DOMAIN graphCalls :
        IF k = 1 THEN InvokedOnResponse(graphCalls[1])
        ELSE /\ ~graphCalls[k].invoked
             /\ ~graphCalls[k].threw
             /\ ~graphCalls[1].threw
             /\ graphCalls[k].graph = graphCalls[1].graph

\* C15 as amended: once a parsedGraph() call has returned a graph, every
\* later call returns that same cached graph without invoking the graph
\* engine; a call made while no graph is cached (the first call, and any call
\* after calls that threw) invokes the engine with base URI = url, body =
\* raw(), content type = contentType(), unless the response has no xhr or no
\* Content-Type header, when the call throws before the engine is reached.
C15_ParsedGraphIsMemoized ==
    \A k \in DOMAIN graphCalls :
        IF CachedBefore(k)
        THEN /\ ~graphCalls[k].invoked
             /\ ~graphCalls[k].threw
             /\ graphCalls[k].graph = FirstGraph
        ELSE IF response.hasXhr /\ response.xhr.contentType # Null
             THEN InvokedOnResponse(graphCalls[k])
             ELSE ~graphCalls[k].invoked /\ graphCalls[k].threw

\* a first call parsed the body and a second call returned the cached graph
C15_Witness ==
    /\ Len(graphCalls) >= 2
    /\ graphCalls[1].invoked
    /\ ~graphCalls[1].threw
    /\ ~graphCalls[2].invoked
    /\ graphCalls[2].graph = graphCalls[1].graph
    /\ response.graph = graphCalls[1].graph

\* a value that is already an absolute URL
IsAbsoluteUrl(value) == StartsWith(value, Http \o <<":">> \o SlashSlash)

\* the response has a link of one of the relations
HasRelation(r, rels) == \E rel \in rels : rel \in DOMAIN r.linkHeaders

\* C16: aclAbsoluteUrl() (metaAbsoluteUrl()) returns null iff the response
\* has no acl (meta or describedBy) link relation, and returns the related
\* value unchanged whenever that value is already an absolute URL.
C16_NullIffNoRelation ==
    response.constructed =>
        /\ AclAbsoluteUrl(response) = Null <=> ~HasRelation(response, {RelAcl})
        /\ MetaAbsoluteUrl(response) = Null <=> ~HasRelation(response, {RelMeta, RelDescribedBy})
        /\ (HasRelation(response, {RelAcl}) /\ IsAbsoluteUrl(response.acl)) =>
              AclAbsoluteUrl(response) = response.acl
        /\ (HasRelation(response, {RelMeta, RelDescribedBy}) /\ IsAbsoluteUrl(response.meta)) =>
              MetaAbsoluteUrl(response) = response.meta

\* url truncated after its last '/'
ParentPath(url) == Slice(url, 0, LastIndexOf(url, "/") + 1)

\* a relative link name that does not start at the root
IsRelativeName(value) == ~Falsy(value) /\ ~IsAbsoluteUrl(value) /\ ~StartsWith(value, Slash)

\* C17: for a relative acl or meta link name, aclAbsoluteUrl() and
\* metaAbsoluteUrl() resolve the name against the parent path of url (url
\* truncated after its last '/').
C17_RelativeNameOnParentPath ==
    response.constructed =>
        /\ IsRelativeName(response.acl) =>
              AclAbsoluteUrl(response) = ParentPath(response.url) \o response.acl
        /\ IsRelativeName(response.meta) =>
              MetaAbsoluteUrl(response) = ParentPath(response.url) \o response.meta


\* C30: for a relative acl or meta link name (one that starts with '/'
\* included), the URL aclAbsoluteUrl() and metaAbsoluteUrl() return has the
\* scheme and host of response.url, also when url has no path.
C30_LinkUrlKeepsOrigin ==
    (response.constructed /\ response.hasXhr) =>
        /\ (~Falsy(response.acl) /\ ~IsAbsoluteUrl(response.acl)) =>
              Origin(AclAbsoluteUrl(response)) = Origin(response.url)
        /\ (~Falsy(response.meta) /\ ~IsAbsoluteUrl(response.meta)) =>
              Origin(MetaAbsoluteUrl(response)) = Origin(response.url)

\* C21: a Response constructed without a transport result has types = [],
\* method = null, no graph and no xhr; isContainer() and exists() return
\* false, contentType(), raw(), aclAbsoluteUrl() and metaAbsoluteUrl() return
\* null, and none of them throws.
C21_EmptyResponseIsAllDefaults ==
    (response.constructed /\ ~response.hasXhr) =>
        /\ response.types = <<>>
        /\ response.method = "null"
        /\ ~response.graph.present
        /\ ~response.xhr.present
        /\ ~IsContainer(response.types)
        /\ Exists(response) = "false"
        /\ ResponseContentType(response) = [threw |-> FALSE, value |-> Null]
        /\ Raw(response) = "null"
        /\ AclAbsoluteUrl(response) = Null
        /\ MetaAbsoluteUrl(response) = Null

\* C22: exists() is true if and only if the response has a transport result
\* whose status s satisfies 200 <= s < 400.
C22_ExistsIffStatusBelow400 ==
    response.constructed =>
        (Exists(response) = "true"
            <=> (response.hasXhr /\ response.xhr.status \in 200..399))

\* a response with a 3xx status has been constructed and exists() is true
C22_Witness ==
    /\ response.constructed
    /\ response.hasXhr
    /\ response.xhr.status = 304
    /\ Exists(response) = "true"

\* the verbs an Allow header lists: the elements of its comma-separated
\* list, without the blanks around them and in lower case; an element that
\* is empty or blank names no verb
ListedVerbs(allow) ==
    IF allow \in {Null, <<>>} THEN {}
    ELSE {TrimToLowerCase(verb) : verb \in Range(Split(allow, <<",">>))} \ {<<>>}

\* C23: allowedMethods is empty for the response to a GET; for any other
\* method it holds exactly the trimmed, lowercased verbs listed in Allow, plus
\* patch if and only if Accept-Patch mentions application/sparql-update.
C23_AllowedMethodsAreListedVerbs ==
    (response.constructed /\ response.hasXhr) =>
        IF IsGetVerb(response.verb) THEN response.allowedMethods = {}
        ELSE /\ response.allowedMethods \ {<<"p", "a", "t", "c", "h">>}
                    = ListedVerbs(response.xhr.allow) \ {<<"p", "a", "t", "c", "h">>}
             /\ <<"p", "a", "t", "c", "h">> \in response.allowedMethods
                    <=> \/ <<"p", "a", "t", "c", "h">> \in ListedVerbs(response.xhr.allow)
                        \/ /\ response.xhr.acceptPatch # Null
                           /\ IndexOfFrom(
                                  response.xhr.acceptPatch,
                                  <<"a", "p", "p", "l", "i", "c", "a", "t", "i", "o", "n", "/", "s", "p", "a", "r", "q", "l", "-", "u", "p", "d", "a", "t", "e">>,
                                  0) >= 0

-----------------------------------------------------------------------------
(* The model classes in their two builds: src/models (ES6 classes) and      *)
(* lib/models (the compiled build, constructor functions and prototypes)    *)

\* A prototype's isContainer is "absent" (the class is not defined, or does
\* not define it), "returns false" or "returns true" (the two functions)

\* require('./resource'): class SolidResource with its isContainer
DefineResource(prototypes) == [prototypes EXCEPT !["SolidResource"] = "returns false"]

\* the class body of SolidContainer and the statements after it: src defines
\* isContainer in the class; lib assigns the function to
\* SolidResource.prototype, and SolidContainer.prototype, created from
\* SolidResource.prototype, has none of its own
DefineContainer(build, prototypes) ==
    IF build = "src"
    THEN [prototypes EXCEPT !["SolidContainer"] = "returns true"]
    ELSE [prototypes EXCEPT !["SolidResource"] = "returns true"]

\* instance.isContainer(): the method found along the prototype chain, called
IsContainerCall(class, prototypes) ==
    LET method == IF class = "SolidContainer" /\ prototypes["SolidContainer"] # "absent"
                  THEN prototypes["SolidContainer"]
                  ELSE prototypes["SolidResource"]
    IN method = "returns true"

\* a program of one build before it requires a model module
InitModels ==
    /\ models \in [build : {"src", "lib"}, loaded : {{}},
                   prototypes : {[class \in ModelClasses |-> "absent"]},
                   instances : {<<>>}, calls : {<<>>}]
    /\ util = [op |-> "none"]
    /\ InitContainer
    /\ ResponseIdle
    /\ ClientIdle

\* require('./resource')
RequireResource ==
    /\ "resource" \notin models.loaded
    /\ models' = [models EXCEPT !.loaded = @ \cup {"resource"},
                                !.prototypes = DefineResource(@)]
    /\ UNCHANGED <<util, containerVars, responseVars, clientVars>>

\* require('./container'), which requires './resource' first
RequireContainer ==
    /\ "container" \notin models.loaded
    /\ models' = [models EXCEPT
          !.loaded = @ \cup {"resource", "container"},
          !.prototypes = DefineContainer(models.build,
                            IF "resource" \in models.loaded THEN @ ELSE DefineResource(@))]
    /\ UNCHANGED <<util, containerVars, responseVars, clientVars>>

\* new SolidResource(rdf, uri)
ConstructSolidResource ==
    /\ "resource" \in models.loaded
    /\ Len(models.instances) < MaxInstances
    /\ models' = [models EXCEPT !.instances = Append(@, "SolidResource")]
    /\ UNCHANGED <<util, containerVars, responseVars, clientVars>>

\* new SolidContainer(rdf, uri)
ConstructSolidContainer ==
    /\ "container" \in models.loaded
    /\ Len(models.instances) < MaxInstances
    /\ models' = [models EXCEPT !.instances = Append(@, "SolidContainer")]
    /\ UNCHANGED <<util, containerVars, responseVars, clientVars>>

\* instance i is asked isContainer(); `calls` keeps, per instance, what the
\* last call returned (history)
CallIsContainer(i) ==
    /\ i \in DOMAIN models.instances
    /\ models' = [models EXCEPT !.calls =
          [j \in DOMAIN models.instances |->
              IF j = i
              THEN [called |-> TRUE,
                    returned |-> IsContainerCall(models.instances[i], models.prototypes)]
              ELSE IF j \in DOMAIN @ THEN @[j] ELSE [called |-> FALSE, returned |-> FALSE]]]
    /\ UNCHANGED <<util, containerVars, responseVars, clientVars>>

NextModels ==
    \/ RequireResource
    \/ RequireContainer
    \/ ConstructSolidResource
    \/ ConstructSolidContainer
    \/ \E i \in 1..MaxInstances : CallIsContainer(i)

SpecModels == InitModels /\ [][NextModels]_vars

\* C12: isContainer() returns false for every SolidResource instance that is
\* not a SolidContainer and true for every SolidContainer instance, in both
\* builds and whatever was loaded or constructed before the call.
C12_IsContainerIffContainer ==
    \A i \in DOMAIN models.calls :
        models.calls[i].called =>
            models.calls[i].returned = (models.instances[i] = "SolidContainer")

-----------------------------------------------------------------------------
(* The web client: solidRequest *)

Resolved(v) == [state |-> "resolved", value |-> v]
Rejected(e) == [state |-> "rejected", reason |-> e]

\* resolve(v) or reject(e) on a promise: a settled promise stays as it is
Settle(promise, outcome) == IF promise.state = "pending" THEN outcome ELSE promise

\* new HttpError(this.status, this.statusText, { xhr: this })
HttpError(status) == [name |-> "HttpError", code |-> status]

\* the verbs get, head, options, del, patch, post (createContainer) and put send
ClientMethods == {"GET", "HEAD", "OPTIONS", "DELETE", "PATCH", "POST", "PUT"}

\* the XMLHttpRequest of a solidRequest call after http.open(method, url) and
\* http.send(), and the promise returned
SentRequest(url, method) ==
    [url |-> url, method |-> method, readyState |-> "sent", event |-> "none",
     promise |-> Pending]

\* the position of the next exchange to end among the exchanges of the call (history)
NextFinished == Cardinality({j \in DOMAIN requests : requests[j].readyState = "done"}) + 1

\* what the transport can load: for a single solidRequest, and (fewer, to
\* keep several concurrent loads tractable) for each load of loadParsedGraphs
XhrLoads ==
    IF call.op \in {"solidRequest", "createContainer"}
    THEN [status : {200, 299, 300, 404, 500}, responseURL : {UrlFSlash}, location : {Null, LocBSlash},
          link : {NoLinkHeader}, contentType : ContentTypes, body : Bodies,
          allow : {Null}, acceptPatch : {Null}]
    ELSE [status : {200, 404}, responseURL : {UrlFSlash, UrlESlash}, location : {Null},
          link : {NoLinkHeader}, contentType : {Null, TextTurtle}, body : {BodyTurtle},
          allow : {Null}, acceptPatch : {Null}]

\* an onload that resolves for every status exists() accepts
OnLoadBelow400(promise, x, method) ==
    IF x.status >= 200 /\ x.status < 400
    THEN LET created == SolidResponse(x, method)
         IN IF created.threw THEN promise ELSE Settle(promise, Resolved(created))
    ELSE Settle(promise, Rejected(HttpError(x.status)))

\* http.onload: `this` is the xhr. An exception thrown by createResponse
\* leaves the handler before resolve is called
OnLoad(promise, x, method) ==
    IF x.status >= 200 /\ x.status < 300
    THEN LET created == SolidResponse(x, method)
         IN IF created.threw THEN promise ELSE Settle(promise, Resolved(created))
    ELSE Settle(promise, Rejected(HttpError(x.status)))

\* http.onerror: the status of an xhr that failed on the network is 0
OnError(promise) == Settle(promise, Rejected(HttpError(0)))

\* the exchange of request i ends with a load event
TransportLoad(i, x) ==
    /\ requests[i].readyState = "sent"
    /\ requests' = [requests EXCEPT ![i] =
          [url |-> @.url, method |-> @.method, readyState |-> "done", event |-> "load",
           xhr |-> x, finished |-> NextFinished,
           promise |-> OnLoad(@.promise, x, @.method)]]
    /\ UNCHANGED <<call, chain, aggregate, containerVars, responseVars, libraryVars>>

\* the exchange of request i ends with an error event
TransportError(i) ==
    /\ requests[i].readyState = "sent"
    /\ requests' = [requests EXCEPT ![i] =
          [url |-> @.url, method |-> @.method, readyState |-> "done", event |-> "error",
           finished |-> NextFinished,
           promise |-> OnError(@.promise)]]
    /\ UNCHANGED <<call, chain, aggregate, containerVars, responseVars, libraryVars>>

\* the exchange of request i ends with a timeout event (http.timeout is set):
\* solidRequest registers no handler for it
TransportTimeout(i) ==
    /\ requests[i].readyState = "sent"
    /\ requests' = [requests EXCEPT ![i] =
          [url |-> @.url, method |-> @.method, readyState |-> "done", event |-> "timeout",
           finished |-> NextFinished,
           promise |-> @.promise]]
    /\ UNCHANGED <<call, chain, aggregate, containerVars, responseVars, libraryVars>>

-----------------------------------------------------------------------------
(* The web client: loadParsedGraphs *)

\* .then(function (response) { responseUrl = response.url; return response.parsedGraph() })
ThenParsedGraph(promise) ==
    IF promise.state = "resolved"
    THEN LET parsed == ParsedGraph(promise.value)
         IN IF parsed.threw THEN Rejected("parse error") ELSE Resolved(parsed.graph)
    ELSE promise

\* a chain without the .catch
NoCatch(promise) == promise

\* .catch(function () { return null })
CatchReturnNull(promise) ==
    IF promise.state = "rejected" THEN Resolved(NullGraph) ELSE promise

\* a last handler that returns the graph without the url of the response
ThenEntryWithoutUri(promise, responseUrl) ==
    IF promise.state = "resolved"
    THEN Resolved([uri |-> Undefined, value |-> promise.value])
    ELSE promise

\* .then(function (parsedGraph) { return { uri: responseUrl, value: parsedGraph } })
ThenEntry(promise, responseUrl) ==
    IF promise.state = "resolved"
    THEN Resolved([uri |-> responseUrl, value |-> promise.value])
    ELSE promise

\* the first .then handler of location i runs (or is skipped by a rejection)
StepThenParsedGraph(i) ==
    /\ chain[i].stage = "get"
    /\ requests[i].promise.state # "pending"
    /\ chain' = [chain EXCEPT ![i] =
          [stage |-> "then",
           responseUrl |-> IF requests[i].promise.state = "resolved"
                           THEN requests[i].promise.value.url ELSE @.responseUrl,
           promise |-> ThenParsedGraph(requests[i].promise)]]
    /\ UNCHANGED <<call, requests, aggregate, containerVars, responseVars, libraryVars>>

\* the .catch handler of location i runs (or is skipped by a fulfilment)
StepCatch(i) ==
    /\ chain[i].stage = "then"
    /\ chain' = [chain EXCEPT ![i].stage = "catch", ![i].promise = CatchReturnNull(@)]
    /\ UNCHANGED <<call, requests, aggregate, containerVars, responseVars, libraryVars>>

\* the last .then handler of location i runs
StepThenEntry(i) ==
    /\ chain[i].stage = "catch"
    /\ chain' = [chain EXCEPT ![i].stage = "entry",
                              ![i].promise = ThenEntry(@, chain[i].responseUrl)]
    /\ UNCHANGED <<call, requests, aggregate, containerVars, responseVars, libraryVars>>

ChainSettled(i) == chain[i].stage = "entry"

\* Promise.all(loadPromises) settles: rejected with the first rejection,
\* resolved with every value, in the order of `locations`, once all resolved
StepPromiseAll ==
    /\ call.op = "loadParsedGraphs"
    /\ aggregate.state = "pending"
    /\ \/ \E i \in DOMAIN chain : ChainSettled(i) /\ chain[i].promise.state = "rejected"
       \/ \A i \in DOMAIN chain : ChainSettled(i) /\ chain[i].promise.state = "resolved"
    /\ aggregate' =
          IF \E i \in DOMAIN chain : ChainSettled(i) /\ chain[i].promise.state = "rejected"
          THEN Rejected("some load rejected")
          ELSE Resolved([i \in DOMAIN chain |-> chain[i].promise.value])
    /\ UNCHANGED <<call, requests, chain, containerVars, responseVars, libraryVars>>

\* a step of the promise job queue
Microtask ==
    \/ \E i \in DOMAIN chain : StepThenParsedGraph(i)
    \/ \E i \in DOMAIN chain : StepCatch(i)
    \/ \E i \in DOMAIN chain : StepThenEntry(i)
    \/ StepPromiseAll

\* the url of a solidRequest call, and member i of `locations`: two urls in turn
RequestedLocation(i) == IF i % 2 = 1 THEN UrlFSlash ELSE UrlESlash

\* client.post(url, data, slug, isContainer): the method and the headers
\* solidRequest is called with; the type is sent as a Link header, the
\* suggested name as a Slug header unless it is empty
Post(slug, isContainer) ==
    LET resourceType == IF isContainer THEN TypeBasicContainer ELSE TypeResource
        headers == [header \in {"Link", "Content-Type"} |->
                       IF header = "Link"
                       THEN resourceType \o <<";", " ", "r", "e", "l", "=">> \o Quoted(RelType)
                       ELSE TextTurtle]
    IN [method |-> "POST",
        headers |-> IF slug # <<>> THEN MapPut(headers, "Slug", slug) ELSE headers]

\* client.createContainer(parentUrl, name): this.post(parentUrl, data, name, true)
CreateContainer(name) ==
    LET post == Post(name, TRUE)
    IN [op |-> "createContainer", method |-> post.method, n |-> 1, headers |-> post.headers]

\* client.solidRequest(url, method): one request is sent
\* client.createContainer(parentUrl, name): one request is sent
\* client.loadParsedGraphs(locations): one GET per location is sent, each with its chain
InitClient ==
    /\ call \in {[op |-> "solidRequest", method |-> m, n |-> 1] : m \in ClientMethods}
                  \cup {[op |-> "loadParsedGraphs", method |-> "GET", n |-> k] : k \in 0..MaxLocations}
                  \cup {CreateContainer(name) : name \in {<<>>, <<"b">>}}
    /\ requests = [i \in 1..call.n |-> SentRequest(RequestedLocation(i), call.method)]
    /\ chain = IF call.op = "loadParsedGraphs"
               THEN [i \in 1..call.n |->
                        [stage |-> "get", responseUrl |-> Undefined, promise |-> Pending]]
               ELSE <<>>
    /\ aggregate = Pending
    /\ ResponseIdle
    /\ InitContainer
    /\ LibraryIdle

NextClient ==
    \/ \E i \in DOMAIN requests, x \in XhrLoads : TransportLoad(i, x)
    \/ \E i \in DOMAIN requests : TransportError(i)
    \/ \E i \in DOMAIN requests : TransportTimeout(i)
    \/ Microtask

SpecClient == InitClient /\ [][NextClient]_vars

-----------------------------------------------------------------------------
(* Claims about the web client *)

\* the transport finished the exchange of request i, in whatever way
TransportFinished(i) == requests[i].readyState = "done"

LoadedWithSuccessStatus(i) ==
    /\ requests[i].event = "load"
    /\ requests[i].xhr.status >= 200
    /\ requests[i].xhr.status < 300

\* the graph the body of load i parses to, with the response's url as base
GraphOfLoad(i) ==
    [present |-> TRUE,
     base |-> requests[i].promise.value.url,
     source |-> requests[i].xhr.body]

\* load i failed: its request was rejected, or its body cannot be parsed
LoadFailed(i) ==
    \/ requests[i].promise.state = "rejected"
    \/ /\ requests[i].promise.state = "resolved"
       /\ ~(/\ requests[i].xhr.contentType \in ParsableTypes
            /\ requests[i].xhr.body = BodyTurtle)

AllLoadsSettled == \A i \in DOMAIN requests : requests[i].promise.state # "pending"

\* C7: loadParsedGraphs tolerates partial failure: the aggregate promise is
\* never rejected; once every load has settled and the job queue has run, it
\* is resolved; and its array has null for a load that failed and the parsed
\* graph for every other load.
C7_LoadParsedGraphsToleratesFailure ==
    call.op = "loadParsedGraphs" =>
        /\ aggregate.state # "rejected"
        /\ (AllLoadsSettled /\ ~ENABLED Microtask) => aggregate.state = "resolved"
        /\ aggregate.state = "resolved" =>
              /\ DOMAIN aggregate.value = DOMAIN requests
              /\ \A i \in DOMAIN requests :
                    aggregate.value[i].value =
                        IF LoadFailed(i) THEN NullGraph ELSE GraphOfLoad(i)

\* the aggregate resolved with one load failed and its sibling parsed
C7_Witness ==
    /\ call.op = "loadParsedGraphs"
    /\ aggregate.state = "resolved"
    /\ \E i, j \in DOMAIN requests :
          /\ requests[i].promise.state = "rejected"
          /\ aggregate.value[i].value = NullGraph
          /\ requests[j].promise.state = "resolved"
          /\ aggregate.value[j].value.present

\* C8: once the transport has finished the exchange in any way (load, error
\* or timeout), the promise solidRequest returned is settled: resolved with
\* a SolidResponse or rejected with an error, not pending.
C8_PromiseSettlesWhenTransportFinishes ==
    \A i \in DOMAIN requests :
        TransportFinished(i) => requests[i].promise.state \in {"resolved", "rejected"}

\* C9: the promise resolves with a SolidResponse iff the transport loads with
\* a status in [200, 300); for every other loaded status and for a transport
\* error it rejects with an HttpError carrying that status.
C9_ResolvesIffSuccessStatus ==
    \A i \in DOMAIN requests :
        TransportFinished(i) =>
            /\ (requests[i].promise.state = "resolved" /\ requests[i].promise.value.constructed)
                  <=> LoadedWithSuccessStatus(i)
            /\ (requests[i].event = "load" /\ ~LoadedWithSuccessStatus(i)) =>
                  /\ requests[i].promise.state = "rejected"
                  /\ requests[i].promise.reason = HttpError(requests[i].xhr.status)
            /\ requests[i].event = "error" =>
                  /\ requests[i].promise.state = "rejected"
                  /\ requests[i].promise.reason = HttpError(0)

\* C24: the array loadParsedGraphs resolves with has one entry per location,
\* in the order of `locations` whatever the order in which the loads
\* complete, and the entry of a successful load has the final url of its
\* response for uri, not the requested location.
C24_EntriesFollowLocations ==
    (call.op = "loadParsedGraphs" /\ aggregate.state = "resolved") =>
        /\ Len(aggregate.value) = call.n
        /\ \A i \in 1..call.n :
              requests[i].promise.state = "resolved" =>
                  aggregate.value[i].uri = requests[i].xhr.responseURL

\* two loads, the second completed before the first, both successful and
\* the first redirected to the location of the second
C24_Witness ==
    /\ call.op = "loadParsedGraphs"
    /\ call.n = 2
    /\ aggregate.state = "resolved"
    /\ \A i \in 1..2 : requests[i].promise.state = "resolved"
    /\ requests[2].finished < requests[1].finished
    /\ requests[1].xhr.responseURL # requests[1].url
    /\ aggregate.value[1].uri = requests[1].xhr.responseURL
    /\ aggregate.value[2].uri = requests[2].xhr.responseURL

\* C26: createContainer(parentUrl, name) sends an HTTP PUT, not a POST, with
\* conditional headers, so that the call fails with 409 Conflict when the
\* name is taken instead of creating the container under another name.
C26_CreateContainerPuts ==
    call.op = "createContainer" =>
        /\ \A i \in DOMAIN requests : requests[i].method = "PUT"
        /\ {"If-Match", "If-None-Match"} \cap DOMAIN call.headers # {}

\* C29: every SolidResponse a solidRequest promise resolves with has exists()
\* true and a status in [200, 300); a transport result with status 3xx, 4xx
\* or 5xx is never the xhr of a resolved value, its promise is rejected with
\* the HttpError of that status.
C29_ResolvedResponsesAre2xx ==
    \A i \in DOMAIN requests :
        /\ requests[i].promise.state = "resolved" =>
              /\ Exists(requests[i].promise.value) = "true"
              /\ requests[i].promise.value.xhr.status \in 200..299
        /\ (requests[i].event = "load" /\ requests[i].xhr.status >= 300) =>
              /\ requests[i].promise.state = "rejected"
              /\ requests[i].promise.reason.code = requests[i].xhr.status

\* a solidRequest promise is resolved with the response of status 299
C29_Witness ==
    /\ call.op = "solidRequest"
    /\ requests[1].promise.state = "resolved"
    /\ requests[1].promise.value.xhr.status = 299
    /\ Exists(requests[1].promise.value) = "true"

-----------------------------------------------------------------------------
(* Calls of the web-util functions *)

\* the strings of at most n characters of an alphabet
StringsOver(alphabet, n) == UNION {[1..k -> alphabet] : k \in 0..n}

\* the calls: a function and its arguments; a Link header has at most
\* MaxLinks link-values, each with an href and no, one or two parameters
UtilCalls ==
    [op : {"absoluteUrl"},
     args : [baseUrl : StringsOver({"/", "b"}, MaxPathLen) \cup {UrlF, UrlFSlash},
             pathUrl : StringsOver({"/", "a"}, MaxPathLen) \cup Locations
                         \cup {Http \o p : p \in StringsOver({"/", "a"}, 1)}],
     returned : {FALSE}, threw : {FALSE}, result : {<<>>}]
      \cup [op : {"hostname"},
            args : [url : StringsOver({"/", "a"}, MaxUrlLen) \cup ResponseUrls],
            returned : {FALSE}, threw : {FALSE}, result : {<<>>}]
      \cup [op : {"parseLinkHeader"},
            args : [link : {NoLinkHeader, EmptyLinkHeader}
                             \cup {LinkHeader(matches) :
                                     matches \in StringsOver(
                                         {LinkValue(href, params) :
                                             href \in {<<"a">>, <<"a", "b">>, <<"b">>},
                                             params \in
                                                 {<<Param("rel", Quoted(RelType))>>,
                                                  <<Param("rel", RelAcl)>>,
                                                  <<Param("rel", Quoted(RelType)),
                                                    Param("title", Quoted(RelType))>>,
                                                  <<>>}},
                                         MaxLinks)}],
            returned : {FALSE}, threw : {FALSE}, result : {<<>>}]

\* a caller is about to call a web-util function
InitWebUtil ==
    /\ util \in UtilCalls
    /\ models = [build |-> "none", loaded |-> {}, instances |-> <<>>, calls |-> <<>>]
    /\ InitContainer
    /\ ResponseIdle
    /\ ClientIdle

\* webUtil.absoluteUrl(baseUrl, pathUrl)
CallAbsoluteUrl ==
    /\ util.op = "absoluteUrl"
    /\ ~util.returned
    /\ util' = [util EXCEPT !.returned = TRUE,
                            !.result = AbsoluteUrl(util.args.baseUrl, util.args.pathUrl)]
    /\ UNCHANGED <<models, containerVars, responseVars, clientVars>>

\* webUtil.hostname(url)
CallHostname ==
    /\ util.op = "hostname"
    /\ ~util.returned
    /\ util' = [util EXCEPT !.returned = TRUE, !.result = Hostname(util.args.url)]
    /\ UNCHANGED <<models, containerVars, responseVars, clientVars>>

\* webUtil.parseLinkHeader(link)
CallParseLinkHeader ==
    /\ util.op = "parseLinkHeader"
    /\ ~util.returned
    /\ LET parsedLinks == ParseLinkHeader(util.args.link)
       IN util' = [util EXCEPT !.returned = TRUE,
                               !.threw = parsedLinks.threw,
                               !.result = IF parsedLinks.threw THEN <<>> ELSE parsedLinks.rels]
    /\ UNCHANGED <<models, containerVars, responseVars, clientVars>>

NextWebUtil ==
    \/ CallAbsoluteUrl
    \/ CallHostname
    \/ CallParseLinkHeader

SpecWebUtil == InitWebUtil /\ [][NextWebUtil]_vars

-----------------------------------------------------------------------------
(* Claims about the web-util functions *)

\* the hrefs a header gives a relation, one per parameter whose value names
\* it, in header order (parseLinkHeader takes the value of every parameter
\* of a link for a relation)
RECURSIVE HrefsOfParams(_, _, _)
HrefsOfParams(href, params, rel) ==
    IF params = <<>> THEN <<>>
    ELSE (IF StripQuotes(Head(params).value) = rel THEN <<href>> ELSE <<>>)
            \o HrefsOfParams(href, Tail(params), rel)

RECURSIVE HrefsOfRelation(_, _)
HrefsOfRelation(matches, rel) ==
    IF matches = <<>> THEN <<>>
    ELSE HrefsOfParams(Head(matches).href, Head(matches).params, rel)
            \o HrefsOfRelation(Tail(matches), rel)

\* the relations a header names
RelationsOf(matches) ==
    UNION {{StripQuotes(matches[i].params[j].value) : j \in DOMAIN matches[i].params} :
              i \in DOMAIN matches}

Occurrences(list, x) == Cardinality({i \in DOMAIN list : list[i] = x})

\* two lists with the same members, each as often
SameMembers(s, t) ==
    /\ Len(s) = Len(t)
    /\ \A x \in Range(s) \cup Range(t) : Occurrences(s, x) = Occurrences(t, x)

\* a list in lexicographic (code unit) order
InLexicographicOrder(list) == \A i, j \in DOMAIN list : i < j => ~StrLess(list[j], list[i])

\* C18: parseLinkHeader returns, for every relation with two or more URIs,
\* its URIs in lexicographic order; for a relation with exactly one URI, that
\* URI; and the empty mapping for an absent or empty header.
C18_RelationsAreSorted ==
    (util.op = "parseLinkHeader" /\ util.returned /\ ~util.threw) =>
        IF ~util.args.link.present \/ util.args.link.empty
        THEN util.result = EmptyMap
        ELSE /\ DOMAIN util.result = RelationsOf(util.args.link.matches)
             /\ \A rel \in DOMAIN util.result :
                   /\ SameMembers(util.result[rel], HrefsOfRelation(util.args.link.matches, rel))
                   /\ InLexicographicOrder(util.result[rel])

\* a header gave one relation three URIs out of order and another relation
\* exactly one
C18_Witness ==
    /\ util.op = "parseLinkHeader"
    /\ util.returned
    /\ ~util.threw
    /\ \E rel \in DOMAIN util.result :
          /\ Len(util.result[rel]) >= 3
          /\ util.result[rel] # HrefsOfRelation(util.args.link.matches, rel)
    /\ \E rel \in DOMAIN util.result : Len(util.result[rel]) = 1

\* the uses of relation rel in a header: the (link, parameter) positions
\* where a parameter named `rel` has that value
RelUses(matches, rel) ==
    UNION {{<<i, j>> : j \in {k \in DOMAIN matches[i].params :
                                 /\ matches[i].params[k].name = "rel"
                                 /\ StripQuotes(matches[i].params[k].value) = rel}} :
              i \in DOMAIN matches}

\* C27: parseLinkHeader adds a link's URI only under the relation names of
\* the link's `rel` parameter: every entry of the returned mapping holds one
\* URI per use of that relation in a rel parameter, so that no other
\* parameter creates or extends an entry.
C27_OnlyRelNamesRelations ==
    (/\ util.op = "parseLinkHeader"
     /\ util.returned
     /\ ~util.threw
     /\ util.args.link.present) =>
        \A rel \in DOMAIN util.result :
            Len(util.result[rel]) = Cardinality(RelUses(util.args.link.matches, rel))

\* p without one leading slash, base without one trailing slash
DropLeadingSlash(p) == IF StartsWith(p, Slash) THEN Slice(p, 1, Len(p)) ELSE p
DropTrailingSlash(base) ==
    IF base # <<>> /\ base[Len(base)] = "/" THEN Slice(base, 0, Len(base) - 1) ELSE base

\* C19: absoluteUrl(base, p) returns p unchanged when p begins with 'http';
\* otherwise it removes at most one leading slash from p and at most one
\* trailing slash from base, changes nothing else in either string, and
\* joins the two with a single '/'.
C19_AbsoluteUrlJoins ==
    (util.op = "absoluteUrl" /\ util.returned /\ ~Falsy(util.args.pathUrl)) =>
        util.result =
            IF StartsWith(util.args.pathUrl, Http) THEN util.args.pathUrl
            ELSE DropTrailingSlash(util.args.baseUrl) \o Slash
                    \o DropLeadingSlash(util.args.pathUrl)

\* the url split on its first '//' only: what precedes it, '//', and the
\* text up to the next '/'; without '//', the first path segment
HostnameOnFirstSplit(url) ==
    LET i == IndexOfFrom(url, SlashSlash, 0)
        rest == Slice(url, i + 2, Len(url))
        j == IndexOfFrom(rest, Slash, 0)
    IN IF i = -1 THEN Split(url, Slash)[1]
       ELSE Slice(url, 0, i) \o SlashSlash \o (IF j = -1 THEN rest ELSE Slice(rest, 0, j))

\* C20: hostname(url) splits on the first '//' only: for a URL containing
\* '//' it returns the part before it, '//', and the text up to the next '/',
\* whatever follows (even a path that itself contains '//'); a
\* protocol-relative input keeps its leading '//'; an input without '//'
\* yields its first path segment.
C20_HostnameSplitsOnFirst ==
    (util.op = "hostname" /\ util.returned) =>
        util.result = HostnameOnFirstSplit(util.args.url)

=============================================================================
